---- MODULE Spec2Model ----
(***************************************************************************)
(* Model of the work-projects CRUD service: the pydantic request and       *)
(* response models (backend/models.py), the route handlers                 *)
(* (backend/routes.py) and the query helpers (database/db_utils.py) over   *)
(* the single table work_projects.                                         *)
(*                                                                         *)
(* Text is a sequence of one-character strings.  A calendar date is the    *)
(* tuple <<year, month, day>>; on the wire and in the table it is the ISO  *)
(* text YYYY-MM-DD.  Timestamps are readings of the clock `now`.           *)
(***************************************************************************)
EXTENDS Integers, Sequences, FiniteSets, TLC

\* ------------------------------------------------------------------ bounds
MaxId == 2
MaxTime == 1
MaxReqs == 3

\* ------------------------------------------------------------ value space
\* JSON null / Python None / SQL NULL.
NULL == <<"NULL">>

Fields ==
    {"project_name", "description", "industry", "start_date", "end_date",
     "tools_used", "role", "client_organization", "client_description"}

TextFields == Fields \ {"start_date", "end_date"}

min_length ==
    [f \in TextFields |-> IF f \in {"project_name", "description"} THEN 1 ELSE 0]

max_length ==
    [project_name |-> 200, description |-> 2000, industry |-> 100,
     tools_used |-> 500, role |-> 100, client_organization |-> 200,
     client_description |-> 1000]

\* Fields declared with `...` (no default) in ProjectBase.
RequiredFields == {"project_name", "description"}

\* ------------------------------------------------------------------ dates
Digits == <<"0", "1", "2", "3", "4", "5", "6", "7", "8", "9">>

IsDigit(c) == \E k \in 1..10 : Digits[k] = c

DigitVal(c) == (CHOOSE k \in 1..10 : Digits[k] = c) - 1

RECURSIVE Num(_)
Num(s) == IF s = <<>> THEN 0
          ELSE 10 * Num(SubSeq(s, 1, Len(s) - 1)) + DigitVal(s[Len(s)])

IsLeap(y) == (y % 4 = 0 /\ y % 100 # 0) \/ y % 400 = 0

DaysInMonth(y, m) ==
    IF m = 2 THEN (IF IsLeap(y) THEN 29 ELSE 28)
    ELSE IF m \in {4, 6, 9, 11} THEN 30 ELSE 31

InvalidDate == <<>>

\* pydantic's date parsing of a JSON string or of the TEXT read from the table.
ParseDate(s) ==
    IF /\ Len(s) = 10
       /\ s[5] = "-"
       /\ s[8] = "-"
       /\ \A k \in {1, 2, 3, 4, 6, 7, 9, 10} : IsDigit(s[k])
    THEN LET y == Num(SubSeq(s, 1, 4))
             m == Num(SubSeq(s, 6, 7))
             d == Num(SubSeq(s, 9, 10))
         IN  IF y >= 1 /\ m \in 1..12 /\ d >= 1 /\ d <= DaysInMonth(y, m)
             THEN <<y, m, d>>
             ELSE InvalidDate
    ELSE InvalidDate

Pad(n, w) == [k \in 1..w |-> Digits[((n \div (10 ^ (w - k))) % 10) + 1]]

\* date.isoformat(): the sqlite3 date adapter and the JSON encoder.
IsoFormat(d) == Pad(d[1], 4) \o <<"-">> \o Pad(d[2], 2) \o <<"-">> \o Pad(d[3], 2)

\* datetime.date.__lt__
DateLess(a, b) ==
    \/ a[1] < b[1]
    \/ a[1] = b[1] /\ a[2] < b[2]
    \/ a[1] = b[1] /\ a[2] = b[2] /\ a[3] < b[3]

\* ------------------------------------------------------------- validation
\* A JSON request body: `set` is the set of keys present, `val` their values
\* (a key that is absent is not looked at).
Payload(rec) ==
    [set |-> DOMAIN rec,
     val |-> [f \in Fields |-> IF f \in DOMAIN rec THEN rec[f] ELSE NULL]]

EmptyPayload == [set |-> {}, val |-> [f \in Fields |-> NULL]]

\* The validator with its comparison turned around.
validate_end_date_reversed(v, start_date) ==
    ~(v # NULL /\ start_date # NULL /\ DateLess(start_date, v))

\* The field validator on end_date, shared by ProjectBase and ProjectUpdate:
\* TRUE when it returns v, FALSE when it raises ValueError.
validate_end_date(v, start_date) ==
    ~(v # NULL /\ start_date # NULL /\ DateLess(v, start_date))

\* One text field against its Field(...) constraints; None is admitted
\* exactly when the annotation is Optional[str].
TextOk(f, v, optional) ==
    IF v = NULL THEN optional
    ELSE Len(v) >= min_length[f] /\ Len(v) <= max_length[f]

DateOk(v) == v = NULL \/ ParseDate(v) # InvalidDate

ParsedDate(v) == IF v = NULL THEN NULL ELSE ParseDate(v)

\* info.data.get('start_date'): the validated start_date, None when it was
\* not supplied (its default) or failed its own validation.
SeenStart(p) ==
    IF "start_date" \in p.set /\ DateOk(p.val["start_date"])
    THEN ParsedDate(p.val["start_date"])
    ELSE NULL

\* Validators run on supplied values only: a supplied end_date must parse
\* and pass validate_end_date.
EndOk(p) ==
    "end_date" \in p.set =>
        /\ DateOk(p.val["end_date"])
        /\ validate_end_date(ParsedDate(p.val["end_date"]), SeenStart(p))

StartOk(p) == "start_date" \in p.set => DateOk(p.val["start_date"])

\* ProjectCreate(**payload) succeeds (otherwise the request is answered 422).
ProjectCreateOk(p) ==
    /\ RequiredFields \subseteq p.set
    /\ \A f \in p.set \cap TextFields :
           TextOk(f, p.val[f], f \notin RequiredFields)
    /\ StartOk(p)
    /\ EndOk(p)

\* The validated ProjectCreate object: every field present, unsupplied
\* optional fields at their default None, dates as date objects.
ProjectCreate(p) ==
    [f \in Fields |->
        IF f \notin p.set THEN NULL
        ELSE IF f \in TextFields THEN p.val[f]
        ELSE ParsedDate(p.val[f])]

\* ProjectUpdate(**payload) succeeds: every field is Optional.
ProjectUpdateOk(p) ==
    /\ \A f \in p.set \cap TextFields : TextOk(f, p.val[f], TRUE)
    /\ StartOk(p)
    /\ EndOk(p)

\* model_dump() without exclude_unset: every field, unsupplied ones at None.
model_dump_all(p) ==
    [set |-> Fields,
     val |-> [f \in Fields |->
                IF f \notin p.set THEN NULL
                ELSE IF f \in TextFields THEN p.val[f]
                ELSE ParsedDate(p.val[f])]]

\* model_dump(exclude_none=True): the supplied fields that are not None.
model_dump_exclude_none(p) ==
    [set |-> {f \in p.set : p.val[f] # NULL},
     val |-> [f \in Fields |->
                IF f \notin p.set THEN NULL
                ELSE IF f \in TextFields THEN p.val[f]
                ELSE ParsedDate(p.val[f])]]

\* project.model_dump(exclude_unset=True): only the supplied fields, as
\* validated values.
model_dump(p) ==
    [set |-> p.set,
     val |-> [f \in Fields |->
                IF f \notin p.set THEN NULL
                ELSE IF f \in TextFields THEN p.val[f]
                ELSE ParsedDate(p.val[f])]]

\* ---------------------------------------------------------------- storage
VARIABLES
    table,      \* work_projects: id -> row, for the ids that have a row
    seq,        \* the largest id the table has ever assigned
    now,        \* the storage engine's clock
    req,        \* the request answered last
    resp,       \* its response: status code and JSON body
    pre,        \* work_projects as it was when that request arrived
    issued,     \* ids returned by the 201 responses so far, oldest first
    deleted,    \* ids whose DELETE was answered 200, not assigned again since
    nreq,       \* number of requests answered
    calls       \* the handlers suspended at a database call, by client

vars == <<table, seq, now, req, resp, pre, issued, deleted, nreq, calls>>

Columns == Fields \cup {"id", "created_at", "updated_at"}

\* fetch_one's None.
NoRow == [none |-> TRUE]

\* Parameter binding of one value: sqlite3 adapts a date with isoformat(),
\* binds str as TEXT and None as NULL.
Adapt(f, v) ==
    IF v = NULL THEN NULL
    ELSE IF f \in TextFields THEN v
    ELSE IsoFormat(v)

\* The params tuple with industry and role in each other's position.
InsertParamsSwapped(project) ==
    [f \in Fields |->
        Adapt(f, project[IF f = "industry" THEN "role"
                         ELSE IF f = "role" THEN "industry" ELSE f])]

\* The params tuple of the INSERT, by column.
InsertParams(project) == [f \in Fields |-> Adapt(f, project[f])]

\* Columns declared NOT NULL.
NotNullColumns == {"project_name", "description"}

\* The id the table assigns to the next inserted row: ids are never reused.
AutoId(s) == s + 1

\* The columns the INSERT does not name: the assigned id, and both
\* timestamps at their default, the current time.
Defaults(id, clock) == [id |-> id, created_at |-> clock, updated_at |-> clock]

\* INSERT INTO work_projects (<the nine fields>) VALUES (?, ..., ?)
Insert(t, id, params, clock) ==
    [i \in DOMAIN t \cup {id} |->
        IF i = id
        THEN [c \in Columns |->
                IF c \in Fields THEN params[c] ELSE Defaults(id, clock)[c]]
        ELSE t[i]]

\* The row-update trigger: stamps updated_at with the current time.
Trigger(row, clock) == [row EXCEPT !["updated_at"] = clock]

\* An UPDATE that writes every optional column: NULL where update_data
\* names none.
UpdateClearing(t, id, update_data, clock) ==
    [i \in DOMAIN t |->
        IF i = id
        THEN Trigger([c \in Columns |->
                        IF c \in update_data.set
                        THEN Adapt(c, update_data.val[c])
                        ELSE IF c \in Fields \ RequiredFields THEN NULL
                        ELSE t[i][c]],
                     clock)
        ELSE t[i]]

\* UPDATE work_projects SET <f = ?, ...> WHERE id = ?
\* for the fields of update_data, followed by the trigger.
Update(t, id, update_data, clock) ==
    [i \in DOMAIN t |->
        IF i = id
        THEN Trigger([c \in Columns |->
                        IF c \in update_data.set
                        THEN Adapt(c, update_data.val[c])
                        ELSE t[i][c]],
                     clock)
        ELSE t[i]]

\* The UPDATE raises IntegrityError: a NOT NULL column would become NULL.
UpdateRejected(update_data) ==
    \E c \in update_data.set \cap NotNullColumns : update_data.val[c] = NULL

\* A DELETE that matches no row.
DeleteNone(t, id) == t

\* DELETE FROM work_projects WHERE id = ?
Delete(t, id) == [i \in DOMAIN t \ {id} |-> t[i]]

\* execute_query returning cursor.rowcount for every statement.
execute_query_rowcount(statement, lastrowid, rowcount) == rowcount

\* execute_query's return value: cursor.lastrowid for an INSERT statement,
\* cursor.rowcount for any other.
execute_query(statement, lastrowid, rowcount) ==
    IF statement = "INSERT" THEN lastrowid ELSE rowcount

\* A SELECT without its WHERE clause: the first row of the table.
fetch_one_first(t, id) ==
    IF DOMAIN t = {} THEN NoRow
    ELSE t[CHOOSE i \in DOMAIN t : \A j \in DOMAIN t : i <= j]

\* fetch_one("SELECT * FROM work_projects WHERE id = ?", (id,))
fetch_one(t, id) == IF id \in DOMAIN t THEN t[id] ELSE NoRow

\* ------------------------------------------------------------- responses
\* ProjectResponse(**row) succeeds: the row passes ProjectBase's field
\* constraints and its end_date validator (otherwise ValidationError).
ProjectResponseOk(row) ==
    /\ \A f \in TextFields : TextOk(f, row[f], f \notin RequiredFields)
    /\ DateOk(row["start_date"])
    /\ DateOk(row["end_date"])
    /\ validate_end_date(ParsedDate(row["end_date"]),
                         IF DateOk(row["start_date"])
                         THEN ParsedDate(row["start_date"]) ELSE NULL)

\* The ProjectResponse object built from a row.
ProjectResponse(row) ==
    [c \in Columns |->
        IF c \in {"start_date", "end_date"} THEN ParsedDate(row[c]) ELSE row[c]]

\* The JSON body of a ProjectResponse: dates are written with isoformat().
Json(obj) ==
    [c \in Columns |->
        IF c \in {"start_date", "end_date"} /\ obj[c] # NULL
        THEN IsoFormat(obj[c]) ELSE obj[c]]

\* HTTPException(status_code=code, ...), after `writes` committed statements.
Error(code, writes) ==
    [status |-> code, body |-> [detail |-> code], writes |-> writes]

\* A response carrying ProjectResponse(**row); the construction raising
\* ValidationError (or TypeError on None) reaches `except Exception`: 500.
Record(code, row, writes) ==
    IF row = NoRow \/ ~ProjectResponseOk(row)
    THEN Error(500, writes)
    ELSE [status |-> code, body |-> Json(ProjectResponse(row)), writes |-> writes]

\* ----------------------------------------------------------------- inputs
P == <<"P">>
Q == <<"Q">>
D == <<"D">>
Energy == <<"E", "n">>
Finance == <<"F", "i">>
Tools == <<"P", "y", ",", " ", "G", "o">>
Role == <<"D", "e", "v">>
Client == <<"C", "o">>
ClientDesc == <<"c", "d">>
Empty == <<>>
Long(n) == [k \in 1..n |-> "x"]

Dec31 == <<"2", "0", "2", "3", "-", "1", "2", "-", "3", "1">>
Jan01 == <<"2", "0", "2", "4", "-", "0", "1", "-", "0", "1">>
Jun30 == <<"2", "0", "2", "4", "-", "0", "6", "-", "3", "0">>
Feb30 == <<"2", "0", "2", "4", "-", "0", "2", "-", "3", "0">>

Minimal == [project_name |-> P, description |-> D]

Full ==
    [project_name |-> P, description |-> D, industry |-> Energy,
     start_date |-> Jan01, end_date |-> Jun30, tools_used |-> Tools,
     role |-> Role, client_organization |-> Client,
     client_description |-> ClientDesc]

\* Bodies of POST /api/projects.
CreatePayloads ==
    { Payload(Minimal),
      Payload(Full),
      Payload([project_name |-> Q, description |-> D, industry |-> NULL,
               end_date |-> NULL, tools_used |-> Empty]),
      Payload([project_name |-> P, description |-> D, start_date |-> Jan01,
               end_date |-> Jan01]),
      \* rejected
      Payload([description |-> D]),
      Payload([Minimal EXCEPT !.project_name = Empty]),
      Payload([Minimal EXCEPT !.project_name = NULL]),
      Payload([Minimal EXCEPT !.project_name = Long(201)]),
      Payload([Full EXCEPT !.start_date = Feb30]),
      Payload([Full EXCEPT !.start_date = Jun30, !.end_date = Jan01]),
      Payload([Full EXCEPT !.start_date = Jan01, !.end_date = Dec31]),
      Payload([project_name |-> P, description |-> D, start_date |-> Jun30,
               end_date |-> Jan01]),
      Payload([description |-> D, start_date |-> Jun30, end_date |-> Jan01]),
      Payload([project_name |-> P, description |-> D, start_date |-> Jun30,
               end_date |-> Jan01, industry |-> Long(101)]) }

\* Bodies of PUT /api/projects/{id}.
UpdatePayloads ==
    { EmptyPayload,
      Payload([project_name |-> Q, industry |-> Finance]),
      Payload([end_date |-> Dec31]),
      Payload([start_date |-> Jun30]),
      Payload([start_date |-> Dec31, end_date |-> Jun30]),
      Payload([industry |-> NULL, end_date |-> NULL]),
      Payload([project_name |-> NULL]),
      \* rejected
      Payload([project_name |-> Empty]),
      Payload([start_date |-> Jun30, end_date |-> Jan01]),
      Payload([end_date |-> Feb30]) }

Ids == 1..MaxId

\* ---------------------------------------------------------------- actions
Init ==
    /\ table = <<>>
    /\ seq = 0
    /\ now = 0
    /\ req = [op |-> "none", id |-> 0, payload |-> EmptyPayload, gone |-> FALSE]
    /\ resp = [status |-> 0, body |-> [detail |-> 0], writes |-> 0]
    /\ pre = <<>>
    /\ issued = <<>>
    /\ deleted = {}
    /\ nreq = 0
    /\ calls = <<>>

\* Every request is answered; the handler runs against the table as found.
Answer(op, id, p, response, t) ==
    /\ req' = [op |-> op, id |-> id, payload |-> p, gone |-> id \in deleted]
    /\ resp' = response
    /\ pre' = table
    /\ table' = t
    /\ nreq' = nreq + 1
    /\ UNCHANGED <<now, calls>>

\* POST /api/projects
create_project(p) ==
    /\ nreq < MaxReqs
    /\ ProjectCreateOk(p) => seq < MaxId
    /\ IF ~ProjectCreateOk(p)
       THEN /\ Answer("create", 0, p, Error(422, 0), table)
            /\ UNCHANGED <<seq, issued, deleted>>
       ELSE LET project == ProjectCreate(p)
                t1 == Insert(table, AutoId(seq), InsertParams(project), now)
                new_id == execute_query("INSERT", AutoId(seq), 1)
                created_project == fetch_one(t1, new_id)
                response == Record(201, created_project, 1)
            IN  /\ Answer("create", 0, p, response, t1)
                /\ seq' = AutoId(seq)
                /\ issued' = IF response.status = 201
                             THEN Append(issued, response.body["id"])
                             ELSE issued
                /\ deleted' = deleted \ {AutoId(seq)}

\* The answer of GET /api/projects/{project_id} against table t.
get_response(t, project_id) ==
    LET project == fetch_one(t, project_id)
    IN  IF project = NoRow THEN Error(404, 0) ELSE Record(200, project, 0)

\* GET /api/projects/{project_id}
get_project(project_id) ==
    /\ nreq < MaxReqs
    /\ Answer("get", project_id, EmptyPayload,
              get_response(table, project_id), table)
    /\ UNCHANGED <<seq, issued, deleted>>

\* PUT /api/projects/{project_id}
update_project(project_id, p) ==
    /\ nreq < MaxReqs
    /\ LET existing == fetch_one(table, project_id)
           update_data == model_dump(p)
           t1 == Update(table, project_id, update_data, now)
           updated_project == fetch_one(t1, project_id)
       IN  IF ~ProjectUpdateOk(p)
           THEN Answer("update", project_id, p, Error(422, 0), table)
           ELSE IF existing = NoRow
           THEN Answer("update", project_id, p, Error(404, 0), table)
           ELSE IF update_data.set = {}
           THEN Answer("update", project_id, p, Record(200, existing, 0), table)
           ELSE IF UpdateRejected(update_data)
           THEN Answer("update", project_id, p, Error(500, 0), table)
           ELSE Answer("update", project_id, p, Record(200, updated_project, 1), t1)
    /\ UNCHANGED <<seq, issued, deleted>>

\* DELETE /api/projects/{project_id}
delete_project(project_id) ==
    /\ nreq < MaxReqs
    /\ LET existing == fetch_one(table, project_id)
       IN  IF existing = NoRow
           THEN /\ Answer("delete", project_id, EmptyPayload, Error(404, 0), table)
                /\ UNCHANGED deleted
           ELSE /\ Answer("delete", project_id, EmptyPayload,
                          [status |-> 200, body |-> [message |-> project_id],
                           writes |-> 1],
                          Delete(table, project_id))
                /\ deleted' = deleted \cup {project_id}
    /\ UNCHANGED <<seq, issued>>

\* Time passes between statements.
Tick ==
    /\ now < MaxTime
    /\ now' = now + 1
    /\ UNCHANGED <<table, seq, req, resp, pre, issued, deleted, nreq, calls>>

Next ==
    \/ \E p \in CreatePayloads : create_project(p)
    \/ \E i \in Ids : get_project(i)
    \/ \E i \in Ids, p \in UpdatePayloads : update_project(i, p)
    \/ \E i \in Ids : delete_project(i)
    \/ Tick

Spec == Init /\ [][Next]_vars

\* ---------------------------------------------------------------- claims
Existing == req.id \in DOMAIN pre

Supplied == req.payload.set

\* An update request of an existing row whose body passes validation and
\* sets no required field to null.
AcceptedUpdate ==
    /\ req.op = "update"
    /\ Existing
    /\ ProjectUpdateOk(req.payload)
    /\ \A f \in Supplied \cap RequiredFields : req.payload.val[f] # NULL

\* The row's dates, both set, are out of order.
Disordered(row) ==
    /\ row["start_date"] # NULL
    /\ row["end_date"] # NULL
    /\ DateLess(ParseDate(row["end_date"]), ParseDate(row["start_date"]))

\* C1: every stored project whose start_date and end_date are both set has
\* end_date >= start_date, whatever creates, updates and deletes came before.
C1_DatesOrdered == \A i \in DOMAIN table : ~Disordered(table[i])

C3_ErrorsChangeNothing ==
    resp.status \in {400, 404, 422, 500} => table = pre

\* C4: GET of an id answers 200 with the stored record when the row exists
\* and 404 when it does not.
C4_GetAnswers ==
    req.op = "get" =>
        IF req.id \in DOMAIN table
        THEN /\ resp.status = 200
             /\ \A c \in Columns : resp.body[c] = table[req.id][c]
        ELSE resp.status = 404

C7_CreateRoundTrip ==
    (req.op = "create" /\ ProjectCreateOk(req.payload)) =>
        /\ resp.status = 201
        /\ resp.body["created_at"] = resp.body["updated_at"]
        /\ \A f \in Fields :
               resp.body[f] = IF f \in Supplied THEN req.payload.val[f] ELSE NULL
        /\ get_response(table, resp.body["id"]).status = 200
        /\ get_response(table, resp.body["id"]).body = resp.body

\* C7 witness: a create that supplies both dates and leaves optional fields
\* out, answered 201.
C7_Witness ==
    /\ req.op = "create"
    /\ resp.status = 201
    /\ {"start_date", "end_date"} \subseteq Supplied
    /\ "industry" \notin Supplied
    /\ resp.body["start_date"] # NULL

C9_EmptyUpdate ==
    (req.op = "update" /\ Existing /\ Supplied = {}) =>
        /\ resp.status = 200
        /\ \A c \in Columns : resp.body[c] = pre[req.id][c]
        /\ resp.writes = 0
        /\ table = pre

\* Both dates supplied and well-formed, with end_date before start_date.
EndBeforeStart(p) ==
    /\ {"start_date", "end_date"} \subseteq p.set
    /\ p.val["start_date"] # NULL
    /\ p.val["end_date"] # NULL
    /\ ParseDate(p.val["start_date"]) # InvalidDate
    /\ ParseDate(p.val["end_date"]) # InvalidDate
    /\ DateLess(ParseDate(p.val["end_date"]), ParseDate(p.val["start_date"]))

Ascii ==
    <<" ", "%", ",", "-", "0", "1", "2", "3", "4", "5", "6", "7", "8", "9", ";",
      "A", "B", "C", "D", "E", "F", "G", "H", "I", "J", "K", "L", "M",
      "N", "O", "P", "Q", "R", "S", "T", "U", "V", "W", "X", "Y", "Z", "_",
      "a", "b", "c", "d", "e", "f", "g", "h", "i", "j", "k", "l", "m",
      "n", "o", "p", "q", "r", "s", "t", "u", "v", "w", "x", "y", "z">>

Code(c) == CHOOSE k \in 1..Len(Ascii) : Ascii[k] = c

UpperA == Code("A")

LowerA == Code("a")

IsUpper(c) == Code(c) >= UpperA /\ Code(c) < UpperA + 26

IsLower(c) == Code(c) >= LowerA /\ Code(c) < LowerA + 26

LowerChar(c) == IF IsUpper(c) THEN Ascii[Code(c) - UpperA + LowerA] ELSE c

UpperChar(c) == IF IsLower(c) THEN Ascii[Code(c) - LowerA + UpperA] ELSE c

\* str.lower() and str.upper()
lower(s) == [k \in 1..Len(s) |-> LowerChar(s[k])]

upper(s) == [k \in 1..Len(s) |-> UpperChar(s[k])]

\* Order of two texts by code point: Python's str < and SQLite's BINARY
\* collation.
RECURSIVE TextLess(_, _)
TextLess(a, b) ==
    IF b = <<>> THEN FALSE
    ELSE IF a = <<>> THEN TRUE
    ELSE IF Head(a) = Head(b) THEN TextLess(Tail(a), Tail(b))
    ELSE Code(Head(a)) < Code(Head(b))

\* SQLite's LIKE with no ESCAPE: % matches any run of characters, _ any one
\* character, and letters match without regard to case.
RECURSIVE Like(_, _)
Like(pattern, s) ==
    IF pattern = <<>> THEN s = <<>>
    ELSE IF Head(pattern) = "%"
    THEN Like(Tail(pattern), s) \/ (s # <<>> /\ Like(pattern, Tail(s)))
    ELSE /\ s # <<>>
         /\ Head(pattern) = "_" \/ LowerChar(Head(pattern)) = LowerChar(Head(s))
         /\ Like(Tail(pattern), Tail(s))

\* ------------------------------------------------------------------ list
MaxRows == 2

Asc == <<"a", "s", "c">>
Desc == <<"d", "e", "s", "c">>

Filters == {"industry", "client", "tools", "start_after", "end_before"}

ParamNames == Filters \cup {"sort_by", "order"}

\* The Query(...) defaults of list_projects' parameters.
QueryDefault ==
    [n \in ParamNames |->
        IF n = "sort_by" THEN "created_at"
        ELSE IF n = "order" THEN Desc
        ELSE NULL]

\* A query string: `set` is the set of parameters given, `val` the value
\* each parameter of list_projects receives.
Query(rec) ==
    [set |-> DOMAIN rec,
     val |-> [n \in ParamNames |->
                IF n \in DOMAIN rec THEN rec[n] ELSE QueryDefault[n]]]

NoQuery == [set |-> {}, val |-> QueryDefault]

\* The allow-list with one more column name in it.
valid_sort_fields_and_role ==
    {"id", "project_name", "industry", "start_date", "end_date",
     "client_organization", "created_at", "updated_at", "role"}

valid_sort_fields ==
    {"id", "project_name", "industry", "start_date", "end_date",
     "client_organization", "created_at", "updated_at"}

\* Python truthiness of an optional str parameter: neither None nor "".
Truthy(v) == v # NULL /\ v # <<>>

\* The WHERE clauses list_projects appends, by parameter name.
Clauses(q) ==
    {n \in Filters : Truthy(q.val[n])}

\* The value bound to the clause of parameter n.
Bound(q, n) ==
    IF n = "tools" THEN <<"%">> \o q.val[n] \o <<"%">>
    ELSE IF n \in {"start_after", "end_before"}
    THEN Adapt("start_date", ParseDate(q.val[n]))
    ELSE q.val[n]

\* The SELECT list_projects builds.
Statement(q) ==
    [where |-> Clauses(q),
     params |-> [n \in Clauses(q) |-> Bound(q, n)],
     order_by |-> q.val["sort_by"],
     direction |-> upper(q.val["order"])]

\* One WHERE clause on one row; a comparison with NULL is not true.
Holds(row, n, v) ==
    IF n = "industry" THEN row["industry"] # NULL /\ row["industry"] = v
    ELSE IF n = "client"
    THEN row["client_organization"] # NULL /\ row["client_organization"] = v
    ELSE IF n = "tools" THEN row["tools_used"] # NULL /\ Like(v, row["tools_used"])
    ELSE IF n = "start_after"
    THEN row["start_date"] # NULL /\ ~TextLess(row["start_date"], v)
    ELSE row["end_date"] # NULL /\ ~TextLess(v, row["end_date"])

\* WHERE 1=1 AND <clause> AND ...
Selected(t, stmt) ==
    {i \in DOMAIN t : \A n \in stmt.where : Holds(t[i], n, stmt.params[n])}

\* SQLite's order of two values of a column: NULL before everything else,
\* integers by value, text by code point.
SqlLess(c, x, y) ==
    IF c \in {"id", "created_at", "updated_at"} THEN x < y
    ELSE IF x = NULL THEN y # NULL
    ELSE y # NULL /\ TextLess(x, y)

\* ORDER BY with the direction ignored: always ascending.
InOrderAscending(stmt, a, b) == ~SqlLess(stmt.order_by, b[stmt.order_by], a[stmt.order_by])

\* Row a may come before row b under ORDER BY <order_by> <direction>.
InOrder(stmt, a, b) ==
    IF stmt.direction = upper(Asc)
    THEN ~SqlLess(stmt.order_by, b[stmt.order_by], a[stmt.order_by])
    ELSE ~SqlLess(stmt.order_by, a[stmt.order_by], b[stmt.order_by])

\* fetch_all(query, params): the selected rows in every order the ORDER BY
\* admits (rows equal in the sort column come in either order).
fetch_all(t, stmt) ==
    LET ids == Selected(t, stmt)
        n == Cardinality(ids)
    IN  { [k \in 1..n |-> t[f[k]]] :
            f \in { g \in [1..n -> ids] :
                      /\ \A j, k \in 1..n : j # k => g[j] # g[k]
                      /\ \A j, k \in 1..n : j < k => InOrder(stmt, t[g[j]], t[g[k]]) } }

ListError(code) ==
    [status |-> code, body |-> [detail |-> code], writes |-> 0, sql |-> <<>>]

\* [ProjectResponse(**project) for project in projects]; one row that does
\* not validate raises and the request is answered 500.
ListAnswer(projects, stmt) ==
    IF \E k \in 1..Len(projects) : ~ProjectResponseOk(projects[k])
    THEN [ListError(500) EXCEPT !.sql = <<stmt>>]
    ELSE [status |-> 200,
          body |-> [k \in 1..Len(projects) |-> Json(ProjectResponse(projects[k]))],
          writes |-> 0,
          sql |-> <<stmt>>]

\* The answers GET /api/projects can give to query q against table t.
list_responses(t, q) ==
    IF ~DateOk(q.val["start_after"]) \/ ~DateOk(q.val["end_before"])
    THEN {ListError(422)}
    ELSE IF q.val["sort_by"] \notin valid_sort_fields
    THEN {ListError(400)}
    ELSE IF lower(q.val["order"]) \notin {Asc, Desc}
    THEN {ListError(400)}
    ELSE {ListAnswer(projects, Statement(q)) : projects \in fetch_all(t, Statement(q))}

\* -------------------------------------------------------- filter options
\* Position of the first comma of s, 0 when there is none.
FirstComma(s) ==
    IF \E k \in 1..Len(s) : s[k] = ","
    THEN CHOOSE k \in 1..Len(s) : s[k] = "," /\ \A j \in 1..(k - 1) : s[j] # ","
    ELSE 0

\* str.split(',')
RECURSIVE Split(_)
Split(s) ==
    IF FirstComma(s) = 0 THEN <<s>>
    ELSE <<SubSeq(s, 1, FirstComma(s) - 1)>>
             \o Split(SubSeq(s, FirstComma(s) + 1, Len(s)))

\* str.lstrip(): leading whitespace only.
RECURSIVE LeftStrip(_)
LeftStrip(s) ==
    IF s # <<>> /\ Head(s) = " " THEN LeftStrip(Tail(s)) ELSE s

\* str.strip()
RECURSIVE Strip(_)
Strip(s) ==
    IF s # <<>> /\ Head(s) = " " THEN Strip(Tail(s))
    ELSE IF s # <<>> /\ s[Len(s)] = " " THEN Strip(SubSeq(s, 1, Len(s) - 1))
    ELSE s

\* sorted(...) of a set of texts, and ORDER BY over DISTINCT values.
Sorted(S) ==
    CHOOSE f \in [1..Cardinality(S) -> S] :
        \A j, k \in 1..Cardinality(S) : j < k => TextLess(f[j], f[k])

\* SELECT DISTINCT <column> ... WHERE <column> IS NOT NULL AND <column> != ''
Distinct(t, column) ==
    {t[i][column] : i \in {j \in DOMAIN t : Truthy(t[j][column])}}

\* The tools_set built from the DISTINCT tools_used values.
ToolsSet(t) ==
    {tool \in UNION { {Strip(Split(v)[k]) : k \in 1..Len(Split(v))} :
                        v \in Distinct(t, "tools_used") } : tool # <<>>}

\* The answer of GET /api/projects/filters/options against table t.
filter_options(t) ==
    [status |-> 200,
     body |-> [industries |-> Sorted(Distinct(t, "industry")),
               clients |-> Sorted(Distinct(t, "client_organization")),
               tools |-> Sorted(ToolsSet(t))],
     writes |-> 0,
     sql |-> <<>>]

\* ----------------------------------------------------- list specification
Lower == <<"p">>
Py == <<"P", "y">>
LowerPy == <<"p", "y">>
Go == <<"G", "o">>
AnyOneY == <<"_", "y">>
Percent == <<"%">>
Messy == <<" ", "G", "o", " ", ",", "P", "_", "y", ",", ",", "G", "o">>
Injection == "id;DROP TABLE work_projects"

\* Bodies of the creates that filled the table.
ListPayloads ==
    { Payload(Full),
      Payload(Minimal),
      Payload([project_name |-> Q, description |-> D, industry |-> Finance,
               start_date |-> Jun30, tools_used |-> LowerPy,
               client_organization |-> Client]),
      Payload([project_name |-> Lower, description |-> D, industry |-> Empty,
               end_date |-> Jan01, tools_used |-> Messy,
               client_organization |-> Empty]) }

\* Bodies of the update of row 1 that followed, if any.
ListUpdates == {EmptyPayload, Payload([end_date |-> Dec31])}

\* Query strings of GET /api/projects.
ListQueries ==
    { NoQuery,
      Query([sort_by |-> "project_name", order |-> Asc]),
      Query([sort_by |-> "project_name"]),
      Query([sort_by |-> "industry", order |-> upper(Asc)]),
      Query([sort_by |-> "start_date", order |-> <<"D", "e", "s", "c">>]),
      Query([sort_by |-> "id", order |-> Asc]),
      Query([order |-> Asc]),
      Query([industry |-> Energy]),
      Query([industry |-> Empty]),
      Query([client |-> Client]),
      Query([tools |-> Py]),
      Query([tools |-> LowerPy]),
      Query([tools |-> AnyOneY]),
      Query([tools |-> Percent]),
      Query([tools |-> Go, sort_by |-> "end_date", order |-> Asc]),
      Query([start_after |-> Jan01]),
      Query([end_before |-> Jan01]),
      Query([start_after |-> Jun30, end_before |-> Jun30]),
      Query([industry |-> Energy, client |-> Client, start_after |-> Jan01]),
      Query([industry |-> Finance, end_before |-> Jun30]),
      \* rejected
      Query([sort_by |-> Injection]),
      Query([sort_by |-> "role"]),
      Query([sort_by |-> "project_name", order |-> <<"u", "p">>]),
      Query([sort_by |-> "role", industry |-> Energy, order |-> <<"u", "p">>]),
      Query([order |-> Empty]),
      Query([start_after |-> Feb30]),
      Query([sort_by |-> "role", end_before |-> Feb30]) }

\* The table after the creates ps, one clock reading `tick` apart.
RECURSIVE Inserted(_, _)
Inserted(ps, tick) ==
    IF ps = <<>> THEN <<>>
    ELSE Insert(Inserted(SubSeq(ps, 1, Len(ps) - 1), tick), Len(ps),
                InsertParams(ProjectCreate(ps[Len(ps)])), (Len(ps) - 1) * tick)

Filled(ps, tick, u) ==
    IF ps = <<>> \/ u.set = {} THEN Inserted(ps, tick)
    ELSE Update(Inserted(ps, tick), 1, model_dump(u), Len(ps) * tick)

InitList ==
    \E n \in 0..MaxRows, tick \in {0, 1}, u \in ListUpdates :
        \E ps \in [1..n -> ListPayloads] :
            /\ table = Filled(ps, tick, u)
            /\ seq = n
            /\ now = n * tick
            /\ req = [op |-> "none", query |-> NoQuery]
            /\ resp = ListError(0)
            /\ pre = table
            /\ issued = [k \in 1..n |-> k]
            /\ deleted = {}
            /\ nreq = 0
            /\ calls = <<>>

AnswerList(op, q, response) ==
    /\ nreq = 0
    /\ req' = [op |-> op, query |-> q]
    /\ resp' = response
    /\ pre' = table
    /\ nreq' = 1
    /\ UNCHANGED <<table, seq, now, issued, deleted, calls>>

\* GET /api/projects
list_projects(q) ==
    /\ nreq = 0
    /\ \E response \in list_responses(table, q) : AnswerList("list", q, response)

\* GET /api/projects/filters/options
get_filter_options ==
    /\ nreq = 0
    /\ AnswerList("options", NoQuery, filter_options(table))

NextList ==
    \/ \E q \in ListQueries : list_projects(q)
    \/ get_filter_options

SpecList == InitList /\ [][NextList]_vars

\* --------------------------------------------------------- claims (list)
GivenSortBy == IF "sort_by" \in req.query.set THEN req.query.val["sort_by"] ELSE "created_at"

GivenOrder == IF "order" \in req.query.set THEN req.query.val["order"] ELSE Desc

\* sort_by is none of the eight sortable columns, or order is neither asc
\* nor desc in any letter case.
BadSort ==
    \/ GivenSortBy \notin {"id", "project_name", "industry", "start_date",
                           "end_date", "client_organization", "created_at",
                           "updated_at"}
    \/ lower(GivenOrder) \notin {Asc, Desc}

\* start_after and end_before, where given, are dates.
DatesParse ==
    \A n \in {"start_after", "end_before"} \cap req.query.set :
        ParseDate(req.query.val[n]) # InvalidDate

SortByInSql ==
    \A k \in 1..Len(resp.sql) :
        resp.sql[k].order_by \in {"id", "project_name", "industry", "start_date",
                                  "end_date", "client_organization",
                                  "created_at", "updated_at"}

Contains(s, x) ==
    \E k \in 1..(Len(s) - Len(x) + 1) : SubSeq(s, k, k + Len(x) - 1) = x

ReturnedIds == {resp.body[k]["id"] : k \in 1..Len(resp.body)}

\* C12: a list filtered by tools = X only, X not empty, returns exactly the
\* stored records whose tools_used contains X literally and in the same
\* letter case.
C12_ToolsSubstring ==
    (/\ req.op = "list"
     /\ req.query.set \cap Filters = {"tools"}
     /\ req.query.val["tools"] # <<>>
     /\ resp.status = 200) =>
        ReturnedIds =
            {i \in DOMAIN table :
                /\ table[i]["tools_used"] # NULL
                /\ Contains(table[i]["tools_used"], req.query.val["tools"])}

\* The row satisfies the filter of parameter n with value v.
Satisfies(row, n, v) ==
    IF n = "industry" THEN row["industry"] # NULL /\ row["industry"] = v
    ELSE IF n = "client"
    THEN row["client_organization"] # NULL /\ row["client_organization"] = v
    ELSE IF n = "start_after"
    THEN /\ row["start_date"] # NULL
         /\ ~DateLess(ParseDate(row["start_date"]), ParseDate(v))
    ELSE /\ row["end_date"] # NULL
         /\ ~DateLess(ParseDate(v), ParseDate(row["end_date"]))

\* C13: a list request (tools filter aside) that is not rejected is
\* answered 200 with exactly the stored records that satisfy every filter
\* given, bounds inclusive; with no match the array is empty.
C13_FiltersConjoined ==
    (/\ req.op = "list"
     /\ "tools" \notin req.query.set
     /\ ~BadSort
     /\ DatesParse) =>
        /\ resp.status = 200
        /\ ReturnedIds =
               {i \in DOMAIN table :
                   \A n \in req.query.set \cap Filters :
                       Satisfies(table[i], n, req.query.val[n])}
        /\ Len(resp.body) = Cardinality(ReturnedIds)

\* C14: the array of a list request is in the order of the sort_by column,
\* ascending for order=asc and descending for order=desc in any letter
\* case; with neither parameter given, by created_at descending.
C14_Ordered ==
    (req.op = "list" /\ resp.status = 200) =>
        \A j, k \in 1..Len(resp.body) :
            j < k =>
                IF lower(GivenOrder) = Asc
                THEN ~SqlLess(GivenSortBy, resp.body[k][GivenSortBy],
                              resp.body[j][GivenSortBy])
                ELSE ~SqlLess(GivenSortBy, resp.body[j][GivenSortBy],
                              resp.body[k][GivenSortBy])

\* C14 witness: an ascending list of two records that differ in the column.
C14_Witness ==
    /\ req.op = "list"
    /\ resp.status = 200
    /\ lower(GivenOrder) = Asc
    /\ GivenSortBy = "project_name"
    /\ Len(resp.body) >= 2
    /\ resp.body[1]["project_name"] # resp.body[2]["project_name"]

\* The comma-separated tokens of v, each without the blanks around it:
\* the runs v[a..b] without comma or outer blank that only blanks separate
\* from the comma (or end of text) on either side.
Tokens(v) ==
    {SubSeq(v, a, b) : <<a, b>> \in
        {w \in (1..Len(v)) \X (1..Len(v)) :
            /\ w[1] <= w[2]
            /\ \A k \in w[1]..w[2] : v[k] # ","
            /\ v[w[1]] # " "
            /\ v[w[2]] # " "
            /\ \E lo \in 0..(w[1] - 1) :
                   /\ lo = 0 \/ v[lo] = ","
                   /\ \A k \in (lo + 1)..(w[1] - 1) : v[k] = " "
            /\ \E hi \in (w[2] + 1)..(Len(v) + 1) :
                   /\ hi = Len(v) + 1 \/ v[hi] = ","
                   /\ \A k \in (w[2] + 1)..(hi - 1) : v[k] = " "}}

\* The list has no duplicate, no empty text, and is in ascending order.
CleanList(l) ==
    /\ \A j, k \in 1..Len(l) : j < k => TextLess(l[j], l[k])
    /\ \A k \in 1..Len(l) : l[k] # <<>>

Elements(l) == {l[k] : k \in 1..Len(l)}

StoredValues(column) ==
    {table[i][column] : i \in DOMAIN table} \ {NULL, <<>>}

\* C15: the three filter-option lists are duplicate-free, ascending and
\* without empty text; industries and clients are the distinct non-empty
\* stored values, tools the trimmed non-empty comma-separated tokens of
\* the stored tools_used values.
C15_FilterOptions ==
    req.op = "options" =>
        /\ resp.status = 200
        /\ CleanList(resp.body.industries)
        /\ CleanList(resp.body.clients)
        /\ CleanList(resp.body.tools)
        /\ Elements(resp.body.industries) = StoredValues("industry")
        /\ Elements(resp.body.clients) = StoredValues("client_organization")
        /\ Elements(resp.body.tools) =
               UNION {Tokens(v) : v \in StoredValues("tools_used")}

\* C15 witness: tokens that repeat across rows and within one, blanks to
\* trim, an empty token and an empty industry.
C15_Witness ==
    /\ req.op = "options"
    /\ Messy \in StoredValues("tools_used")
    /\ Tools \in StoredValues("tools_used")
    /\ \E i \in DOMAIN table : table[i]["industry"] = <<>>
    /\ Len(resp.body.tools) = 3
    /\ Len(resp.body.industries) = 1

C17_AbsentIsNotNull ==
    AcceptedUpdate =>
        \A f \in Fields \ RequiredFields :
            IF f \notin Supplied
            THEN table[req.id][f] = pre[req.id][f]
            ELSE req.payload.val[f] = NULL => table[req.id][f] = NULL

\* C17 witness: one update nulls a stored industry and leaves a stored
\* role, which it does not name, as it was.
C17_Witness ==
    /\ AcceptedUpdate
    /\ resp.status = 200
    /\ "industry" \in Supplied
    /\ req.payload.val["industry"] = NULL
    /\ pre[req.id]["industry"] # NULL
    /\ resp.body["industry"] = NULL
    /\ "role" \notin Supplied
    /\ table[req.id]["role"] # NULL

\* -------------------------------------------------- interleaved requests
\* The handlers are coroutines of one event loop: a request runs from one
\* await of a database call to the next, and another request may run in
\* between. Each database call opens its own connection and commits.
Clients == {1, 2}

\* A handler not yet called; its local variables are unset.
Idle ==
    [pc |-> "idle", op |-> "none", id |-> 0, payload |-> EmptyPayload,
     before |-> <<>>, existing |-> NoRow, updated_project |-> NoRow,
     response |-> Error(0, 0)]

\* Bodies of the interleaved PUT requests.
ConcUpdates ==
    { EmptyPayload,
      Payload([industry |-> Finance]),
      Payload([project_name |-> Q, end_date |-> Dec31]),
      Payload([role |-> NULL]),
      Payload([project_name |-> NULL]),
      \* rejected
      Payload([project_name |-> Empty]) }

\* The stored projects the requests find.
ConcTables ==
    { Inserted(<<Payload(Full)>>, 0),
      Inserted(<<Payload(Minimal), Payload(Full)>>, 0) }

InitConc ==
    \E t \in ConcTables :
        /\ table = t
        /\ seq = Cardinality(DOMAIN t)
        /\ now = 0
        /\ req = [op |-> "none", id |-> 0, payload |-> EmptyPayload, gone |-> FALSE]
        /\ resp = Error(0, 0)
        /\ pre = t
        /\ issued = [k \in 1..Cardinality(DOMAIN t) |-> k]
        /\ deleted = {}
        /\ nreq = 0
        /\ calls = [c \in Clients |-> Idle]

\* The handler returns or raises: the request is answered.
Return(call, response) == [call EXCEPT !.pc = "done", !.response = response]

\* A request arrives: the body is validated, then the handler is called.
request(c, op, project_id, p) ==
    /\ calls[c].pc = "idle"
    /\ LET call == [Idle EXCEPT !.op = op, !.id = project_id, !.payload = p,
                                !.before = table]
       IN  calls' = [calls EXCEPT ![c] =
                        IF op = "update" /\ ~ProjectUpdateOk(p)
                        THEN Return(call, Error(422, 0))
                        ELSE [call EXCEPT !.pc = "existing"]]
    /\ UNCHANGED <<table, seq, now, req, resp, pre, issued, deleted, nreq>>

\* existing = await fetch_one(...), and the code up to the next await.
await_existing(c) ==
    /\ calls[c].pc = "existing"
    /\ LET existing == fetch_one(table, calls[c].id)
           call == [calls[c] EXCEPT !.existing = existing]
       IN  calls' = [calls EXCEPT ![c] =
                        IF existing = NoRow
                        THEN Return(call, Error(404, 0))
                        ELSE IF call.op = "update"
                                /\ model_dump(call.payload).set = {}
                        THEN Return(call, Record(200, existing, 0))
                        ELSE [call EXCEPT !.pc = "execute_query"]]
    /\ UNCHANGED <<table, seq, now, req, resp, pre, issued, deleted, nreq>>

\* await execute_query("UPDATE ..." / "DELETE ...", ...); the delete
\* handler then returns its message.
await_execute_query(c) ==
    /\ calls[c].pc = "execute_query"
    /\ LET call == calls[c]
           update_data == model_dump(call.payload)
       IN  IF call.op = "delete"
           THEN /\ table' = Delete(table, call.id)
                /\ deleted' = deleted \cup {call.id}
                /\ calls' = [calls EXCEPT ![c] =
                                Return(call, [status |-> 200,
                                              body |-> [message |-> call.id],
                                              writes |-> 1])]
           ELSE IF call.id \in DOMAIN table /\ UpdateRejected(update_data)
           THEN /\ calls' = [calls EXCEPT ![c] = Return(call, Error(500, 0))]
                /\ UNCHANGED <<table, deleted>>
           ELSE /\ table' = Update(table, call.id, update_data, now)
                /\ calls' = [calls EXCEPT ![c].pc = "updated_project"]
                /\ UNCHANGED deleted
    /\ UNCHANGED <<seq, now, req, resp, pre, issued, nreq>>

\* updated_project = await fetch_one(...);
\* return ProjectResponse(**updated_project)
await_updated_project(c) ==
    /\ calls[c].pc = "updated_project"
    /\ LET updated_project == fetch_one(table, calls[c].id)
           call == [calls[c] EXCEPT !.updated_project = updated_project]
       IN  calls' = [calls EXCEPT ![c] =
                        Return(call, Record(200, updated_project, 1))]
    /\ UNCHANGED <<table, seq, now, req, resp, pre, issued, deleted, nreq>>

NextConc ==
    \/ \E c \in Clients, i \in Ids, p \in ConcUpdates : request(c, "update", i, p)
    \/ \E c \in Clients, i \in Ids : request(c, "delete", i, EmptyPayload)
    \/ \E c \in Clients : await_existing(c)
    \/ \E c \in Clients : await_execute_query(c)
    \/ \E c \in Clients : await_updated_project(c)
    \/ Tick

SpecConc == InitConc /\ [][NextConc]_vars

\* ---------------------------------------------------- claims (interleaved)
\* Both requests are answered, name the same id, and each arrived while the
\* row was stored: neither was answered before the other arrived.
Overlapping(c, d) ==
    /\ c # d
    /\ calls[c].pc = "done"
    /\ calls[d].pc = "done"
    /\ calls[c].id = calls[d].id
    /\ calls[c].id \in DOMAIN calls[c].before
    /\ calls[d].id \in DOMAIN calls[d].before

\* The update passes validation and sets no required field to null.
Accepted(c) ==
    /\ calls[c].op = "update"
    /\ ProjectUpdateOk(calls[c].payload)
    /\ \A f \in calls[c].payload.set \cap RequiredFields :
           calls[c].payload.val[f] # NULL

\* C18: of two overlapping deletes of the same stored id, exactly one is
\* answered 200 and the other 404.
C18_OneDeleteWins ==
    \A c, d \in Clients :
        (/\ Overlapping(c, d)
         /\ calls[c].op = "delete"
         /\ calls[d].op = "delete") =>
            {calls[c].response.status, calls[d].response.status} = {200, 404}

\* C19: an accepted update whose existence check found the row, overlapping
\* a delete of the same id, is answered 200 with a full record or 404,
\* never 500.
C19_UpdateNever500 ==
    \A u, d \in Clients :
        (/\ Overlapping(u, d)
         /\ Accepted(u)
         /\ calls[u].existing # NoRow
         /\ calls[d].op = "delete") =>
            \/ calls[u].response.status = 404
            \/ /\ calls[u].response.status = 200
               /\ DOMAIN calls[u].response.body = Columns

\* The two are overlapping accepted updates of one row with disjoint sets
\* of fields.
DisjointUpdates(c, d) ==
    /\ Overlapping(c, d)
    /\ Accepted(c)
    /\ Accepted(d)
    /\ calls[c].payload.set \cap calls[d].payload.set = {}

\* The stored row holds every value either update supplied.
NeitherLost(c, d) ==
    \A k \in {c, d} :
        \A f \in calls[k].payload.set :
            table[calls[k].id][f] = calls[k].payload.val[f]

====
